---- MODULE Spec2Model ----
(***************************************************************************)
(* Model of the notebook "6. Mitigate Class imbalanced problem in keras":  *)
(* a linear script whose cells load a labelled dataset, delete label-0     *)
(* rows among the first 200 rows, split the rest into train and test sets, *)
(* compute balanced class weights from the training labels and train and   *)
(* evaluate a small network twice (without and with the class weights).    *)
(*                                                                         *)
(* Python lists are 0-based: the Python index i is position i + 1 of the   *)
(* TLA+ sequence.  A feature row is represented by the 0-based index it    *)
(* had in the loaded dataset, so a row can be followed through the cells.  *)
(* Class weights are exact rationals (reduced fractions); floating-point   *)
(* rounding is not modelled.                                               *)
(***************************************************************************)
EXTENDS Integers, Sequences, FiniteSets, TLC

VARIABLES
    pc,             \* the next cell (or statement of a cell) to run
    error,          \* the exception that stopped the run, "" when none
    data,           \* the loaded dataset: [data |-> rows, target |-> labels]
    X_data,         \* list of rows, None where marked for deletion
    y_data,         \* list of labels, None where marked for deletion
    stdout,         \* what the last printing cell printed
    X_train, X_test, y_train, y_test,
    weights,        \* array returned by compute_class_weight
    class_weights,  \* dict label -> weight
    model,          \* the object the name `model` is bound to
    nmodels,        \* number of Sequential() objects constructed so far
    y_pred,         \* rounded predictions on X_test
    training,       \* the fit call in progress: <<>> when none, else <<its loop state>>
    y_prob          \* the array model.predict returned, until .round() consumed it

vars == <<pc, error, data, X_data, y_data, stdout, X_train, X_test, y_train,
          y_test, weights, class_weights, model, nmodels, y_pred,
          training, y_prob>>

dataVars  == <<data, X_data, y_data>>
splitVars == <<X_train, X_test, y_train, y_test>>
cwVars    == <<weights, class_weights>>
runVars   == <<model, nmodels, y_pred>>
callVars  == <<training, y_prob>>

----------------------------------------------------------------------------
(* Bounds of the model *)

\* longest arbitrary label sequence put before and after the long run of
\* equal labels of an input dataset
MaxEdge == 3
\* longest post-injection dataset the split, weighting and training cells
\* are explored from
MaxRows == 6

----------------------------------------------------------------------------
(* Program constants *)

\* Python's None; labels are 0 or 1 and rows are indices >= 0
None == -1
\* for i in range(200)
RemoveCount == 200
\* the label tested by the marking loop: if y_data[i] == 0
TargetLabel == 0
\* the labels of the breast cancer dataset: malignant (0), benign (1)
Labels == {0, 1}

----------------------------------------------------------------------------
(* Helpers *)

\* Counter(seq)[v]: the number of occurrences of v
Count(seq, v) == Cardinality({k \in DOMAIN seq : seq[k] = v})

\* a list of n copies of v
Repeat(v, n) == [k \in 1..n |-> v]

\* all sequences over S of length at most n
BoundedSeq(S, n) == UNION {[1..m -> S] : m \in 0..n}

\* data.data.tolist() of a dataset with the labels t: row i is row index i
Dataset(t) == [data |-> [k \in 1..Len(t) |-> k - 1], target |-> t]

\* length of the run of equal labels in the middle of an input dataset,
\* chosen so that the input lengths lie on both sides of RemoveCount
BulkLen == RemoveCount - MaxEdge - 1

\* The shape of the notebook's own dataset (212 label-0, 357 label-1 rows,
\* 104 of the label-0 rows among the first 200, as the cells' outputs show),
\* laid out in blocks.
NotebookTarget ==
    Repeat(0, 104) \o Repeat(1, 96) \o Repeat(0, 108) \o Repeat(1, 261)

\* The label sequences the load cell is explored with.
InputTargets ==
    { h \o Repeat(b, BulkLen) \o t :
        h \in BoundedSeq(Labels, MaxEdge),
        t \in BoundedSeq(Labels, MaxEdge),
        b \in Labels }
    \cup {NotebookTarget}

----------------------------------------------------------------------------
(* Cells 2-6: load, count, mark, filter, count *)

\* [Counter(y_data)[0], Counter(y_data)[1]] as printed by cells 3 and 6
CounterLine(y) == <<Count(y, 0), Count(y, 1)>>

\* the loop written as range(n - 1): the last index is not visited
MarkedOffByOne(list, y, n) ==
    [k \in DOMAIN list |->
        IF k < n /\ y[k] = TargetLabel THEN None ELSE list[k]]

\* the loop without its label test: every visited entry becomes None
MarkedAnyLabel(list, y, n) ==
    [k \in DOMAIN list |->
        IF k <= n THEN None ELSE list[k]]

\* the loop counting matches instead of indices: the first n entries whose
\* label is the target label become None
MarkedFirstMatching(list, y, n) ==
    [k \in DOMAIN list |->
        IF /\ y[k] = TargetLabel
           /\ Cardinality({j \in 1..k : y[j] = TargetLabel}) <= n
        THEN None ELSE list[k]]

\* one list after the marking loop ran for i in range(n): entry i becomes
\* None when y[i] == 0
Marked(list, y, n) ==
    [k \in DOMAIN list |->
        IF k <= n /\ y[k] = TargetLabel THEN None ELSE list[k]]

\* [x for x in list if x]: drops the falsy label 0 along with None
FilterTruthy(list) == SelectSeq(list, LAMBDA x : x # None /\ x # 0)

\* [x for x in list if x != None]
FilterNotNone(list) == SelectSeq(list, LAMBDA x : x # None)

\* the values the names of the later cells hold before those cells ran
Unbound ==
    /\ X_train = <<>> /\ X_test = <<>> /\ y_train = <<>> /\ y_test = <<>>
    /\ weights = <<>>
    /\ class_weights = <<>>
    /\ model = [id |-> 0, fits |-> <<>>]
    /\ nmodels = 0
    /\ y_pred = <<>>
    /\ training = <<>>
    /\ y_prob = <<>>

\* cell 2: data = load_breast_cancer(); X_data, y_data = tolist() copies
Init ==
    /\ pc = "count_loaded"
    /\ error = ""
    /\ \E t \in InputTargets :
          /\ data = Dataset(t)
          /\ X_data = Dataset(t).data
          /\ y_data = t
    /\ stdout = <<>>
    /\ Unbound

\* cell 3: print the two class counts
CountLoaded ==
    /\ pc = "count_loaded"
    /\ stdout' = CounterLine(y_data)
    /\ pc' = "mark"
    /\ UNCHANGED <<error, dataVars, splitVars, cwVars, runVars, callVars>>

\* the loop without its statement X_data[i] = None: only labels are marked
MarkLoopLabelsOnly ==
    /\ pc = "mark"
    /\ Len(y_data) >= RemoveCount
    /\ y_data' = Marked(y_data, y_data, RemoveCount)
    /\ pc' = "filter"
    /\ UNCHANGED <<error, data, X_data, stdout, splitVars, cwVars, runVars, callVars>>

\* cell 4 on a dataset of at least 200 rows: the loop runs to its end
MarkLoop ==
    /\ pc = "mark"
    /\ Len(y_data) >= RemoveCount
    /\ X_data' = Marked(X_data, y_data, RemoveCount)
    /\ y_data' = Marked(y_data, y_data, RemoveCount)
    /\ pc' = "filter"
    /\ UNCHANGED <<error, data, stdout, splitVars, cwVars, runVars, callVars>>

\* the loop written as range(min(200, len(y_data))): a short dataset is
\* marked to its end and the run goes on
MarkLoopTruncating ==
    /\ pc = "mark"
    /\ Len(y_data) < RemoveCount
    /\ X_data' = Marked(X_data, y_data, Len(y_data))
    /\ y_data' = Marked(y_data, y_data, Len(y_data))
    /\ pc' = "filter"
    /\ UNCHANGED <<error, data, stdout, splitVars, cwVars, runVars, callVars>>

\* cell 4 on a dataset of fewer than 200 rows: y_data[i] raises IndexError
\* at i = len(y_data), after the rows before it were marked
MarkLoopIndexError ==
    /\ pc = "mark"
    /\ Len(y_data) < RemoveCount
    /\ X_data' = Marked(X_data, y_data, Len(y_data))
    /\ y_data' = Marked(y_data, y_data, Len(y_data))
    /\ error' = "IndexError"
    /\ pc' = "error"
    /\ UNCHANGED <<data, stdout, splitVars, cwVars, runVars, callVars>>

\* cell 5: drop the None entries of both lists
FilterNone ==
    /\ pc = "filter"
    /\ X_data' = FilterNotNone(X_data)
    /\ y_data' = FilterNotNone(y_data)
    /\ pc' = "count_injected"
    /\ UNCHANGED <<error, data, stdout, splitVars, cwVars, runVars, callVars>>

\* cell 6: print the two class counts again
CountInjected ==
    /\ pc = "count_injected"
    /\ stdout' = CounterLine(y_data)
    /\ pc' = "split"
    /\ UNCHANGED <<error, dataVars, splitVars, cwVars, runVars, callVars>>

Next ==
    \/ CountLoaded
    \/ MarkLoop
    \/ MarkLoopIndexError
    \/ FilterNone
    \/ CountInjected

Spec == Init /\ [][Next]_vars

----------------------------------------------------------------------------
(* Cell 7: train/test split *)

\* test_size = 0.2, as the fraction 1/5
TestSizeNum == 1
TestSizeDen == 5

\* number of test rows of n rows: ceil(test_size * n)
NTest(n) == (n * TestSizeNum + TestSizeDen - 1) \div TestSizeDen

\* the elements of a finite set of integers in ascending order
RECURSIVE Ascending(_)
Ascending(S) ==
    IF S = {} THEN <<>>
    ELSE LET m == CHOOSE x \in S : \A y \in S : x <= y
         IN  <<m>> \o Ascending(S \ {m})

Reverse(s) == [k \in 1..Len(s) |-> s[Len(s) + 1 - k]]

\* The shuffles of the positions 1..n the split is explored with: any k
\* positions come first (they become the test set), the others follow, each
\* part in ascending or in descending order.  random_state = 7 fixes one
\* permutation per n.
Shuffles(n, k) ==
    UNION { { Ascending(T) \o Ascending((1..n) \ T),
              Reverse(Ascending(T)) \o Reverse(Ascending((1..n) \ T)) } :
            T \in {U \in SUBSET (1..n) : Cardinality(U) = k} }

\* array[indices]
Take(list, idx) == [k \in DOMAIN idx |-> list[idx[k]]]

\* the rows [a, b) of a permutation, as positions a+1..b
Slice(perm, a, b) == [k \in 1..(b - a) |-> perm[a + k]]

\* the train part one position short: permutation[n_test + 1:]
TrainIndicesShort(perm, ntest) == Slice(perm, ntest + 1, Len(perm))

\* permutation[:n_test] and permutation[n_test:]
TestIndices(perm, ntest) == Slice(perm, 0, ntest)
TrainIndices(perm, ntest) == Slice(perm, ntest, Len(perm))

\* cell 7 on a dataset too small to leave a train row (0 or 1 rows):
\* train_test_split raises ValueError, as the scikit-learn releases that
\* validate the sizes of the two parts do
SplitValueError ==
    /\ pc = "split"
    /\ Len(X_data) - NTest(Len(X_data)) = 0
    /\ error' = "ValueError"
    /\ pc' = "error"
    /\ UNCHANGED <<dataVars, stdout, splitVars, cwVars, runVars, callVars>>

\* cell 7: X_train, X_test, y_train, y_test = train_test_split(X, y, 0.2, 7)
Split ==
    /\ pc = "split"
    /\ LET n == Len(X_data)
           ntest == NTest(n)
       IN  /\ n - ntest > 0
           /\ \E perm \in Shuffles(n, ntest) :
                 /\ X_train' = Take(X_data, TrainIndices(perm, ntest))
                 /\ X_test' = Take(X_data, TestIndices(perm, ntest))
                 /\ y_train' = Take(y_data, TrainIndices(perm, ntest))
                 /\ y_test' = Take(y_data, TestIndices(perm, ntest))
                 /\ stdout' = <<Len(X_train'), Len(X_test'), Len(y_train'), Len(y_test')>>
    /\ pc' = "weights"
    /\ UNCHANGED <<error, dataVars, cwVars, runVars, callVars>>

----------------------------------------------------------------------------
(* Cells 11-12: class weights *)

RECURSIVE GCD(_, _)
GCD(a, b) == IF b = 0 THEN a ELSE GCD(b, a % b)

\* the quotient a / b of two integers, b positive, as a reduced fraction
\* (x and y name the values of a and b, so that each is evaluated once)
Frac(a, b) ==
    CHOOSE r \in {[num |-> x \div GCD(x, y), den |-> y \div GCD(x, y)] :
                     x \in {a}, y \in {b}} : TRUE

\* np.unique(y): the distinct labels in ascending order
Unique(y) == Ascending({y[k] : k \in DOMAIN y})

\* a weight with the class count added to, not multiplied by, the number
\* of classes
BalancedWeightAdditive(n, k, cnt) == Frac(n, k + cnt)

\* a weight proportional to the class frequency
BalancedWeightProportional(n, k, cnt) == Frac(k * cnt, n)

\* len(y) / (n_classes * count)
BalancedWeight(n, k, cnt) == Frac(n, k * cnt)

\* compute_class_weight('balanced', classes, y)
compute_class_weight(classes, y) ==
    [i \in DOMAIN classes |->
        BalancedWeight(Len(y), Len(Unique(y)), Count(y, classes[i]))]

\* dict(zip(keys, values))
DictZip(keys, values) ==
    [c \in {keys[i] : i \in DOMAIN keys} |->
        values[CHOOSE i \in DOMAIN keys : keys[i] = c]]

\* the weights computed from the labels of the whole post-injection dataset
ComputeWeightsOfAllLabels ==
    /\ pc = "weights"
    /\ weights' = compute_class_weight(Unique(y_data), y_data)
    /\ pc' = "zip"
    /\ UNCHANGED <<error, dataVars, stdout, splitVars, class_weights, runVars, callVars>>

\* cell 11: weights = compute_class_weight('balanced', np.unique(y_train), y_train)
ComputeWeights ==
    /\ pc = "weights"
    /\ weights' = compute_class_weight(Unique(y_train), y_train)
    /\ pc' = "zip"
    /\ UNCHANGED <<error, dataVars, stdout, splitVars, class_weights, runVars, callVars>>

\* cell 12: class_weights = dict(zip(np.unique(y_train), weights)); print
ZipWeights ==
    /\ pc = "zip"
    /\ class_weights' = DictZip(Unique(y_train), weights)
    /\ stdout' = class_weights'
    /\ pc' = "def_mlp"
    /\ UNCHANGED <<error, dataVars, splitVars, weights, runVars, callVars>>

----------------------------------------------------------------------------
(* Cells 13-19: the two training runs *)

\* epochs = 100
Epochs == 100

\* Output probabilities, in tenths, a model is explored with.  The parameter
\* values of a model are not modelled: a model is known by the fits that
\* shaped its parameters, and its outputs are any of these values.
Probs == {0, 2, 5, 8, 10}

\* numpy's ceil of a probability p/10, in the place of round
Ceil(p) == IF p > 0 THEN 1 ELSE 0

\* numpy's round of a probability p/10: to the nearest integer, a tie (0.5)
\* to the even one
Round(p) == IF p > 5 THEN 1 ELSE 0

\* simple_mlp(): a new Sequential model, no fit applied to it yet
simple_mlp(created) == [id |-> created + 1, fits |-> <<>>]

\* model.fit(X, y, epochs, class_weight): the parameters are updated in
\* place; cw is <<>> for no class_weight argument, <<dict>> otherwise
Fit(m, X, y, epochs, cw) ==
    [m EXCEPT !.fits = Append(@, [epochs |-> epochs, samples |-> Len(X),
                                  class_weight |-> cw])]

\* the values model.predict(X).round() can take
PredictRound(m, X) == {[k \in DOMAIN X |-> Round(p[k])] : p \in [DOMAIN X -> Probs]}

\* y_pred.sum() / len(y_pred)
PositiveFraction(pred) == Frac(Count(pred, 1), Len(pred))

\* accuracy_score(y_pred, y_test, normalize = False): the number of matches
accuracy_count(pred, truth) ==
    Frac(Cardinality({k \in DOMAIN pred : pred[k] = truth[k]}), 1)

\* accuracy_score(y_pred, y_test)
accuracy_score(pred, truth) ==
    Frac(Cardinality({k \in DOMAIN pred : pred[k] = truth[k]}), Len(pred))

\* cell 13: def simple_mlp
DefineMlp ==
    /\ pc = "def_mlp"
    /\ pc' = "naive_create"
    /\ UNCHANGED <<error, dataVars, stdout, splitVars, cwVars, runVars, callVars>>

\* cell 14, first statement: model = simple_mlp()
NaiveCreate ==
    /\ pc = "naive_create"
    /\ model' = simple_mlp(nmodels)
    /\ nmodels' = nmodels + 1
    /\ pc' = "naive_fit"
    /\ UNCHANGED <<error, dataVars, stdout, splitVars, cwVars, y_pred, callVars>>

\* cell 14, second statement: model.fit(X_train, y_train, epochs = 100)
NaiveFit ==
    /\ pc = "naive_fit"
    /\ model' = Fit(model, X_train, y_train, Epochs, <<>>)
    /\ pc' = "naive_predict"
    /\ UNCHANGED <<error, dataVars, stdout, splitVars, cwVars, nmodels, y_pred, callVars>>

\* cell 15 written y_pred = y_test = model.predict(X_test).round(): the
\* predictions take the place of the held-out labels
NaivePredictIntoTest ==
    /\ pc = "naive_predict"
    /\ y_pred' \in PredictRound(model, X_test)
    /\ y_test' = y_pred'
    /\ pc' = "naive_report"
    /\ UNCHANGED <<error, dataVars, stdout, X_train, X_test, y_train, cwVars,
                   model, nmodels, callVars>>

\* cell 15: y_pred = model.predict(X_test).round()
NaivePredict ==
    /\ pc = "naive_predict"
    /\ y_pred' \in PredictRound(model, X_test)
    /\ pc' = "naive_report"
    /\ UNCHANGED <<error, dataVars, stdout, splitVars, cwVars, model, nmodels, callVars>>

\* cell 16: print the fraction of predicted 1's and the accuracy
NaiveReport ==
    /\ pc = "naive_report"
    /\ stdout' = <<PositiveFraction(y_pred), accuracy_score(y_pred, y_test)>>
    /\ pc' = "weighted_create"
    /\ UNCHANGED <<error, dataVars, splitVars, cwVars, runVars, callVars>>

\* cell 17 without its first statement: the name model keeps its object
WeightedReuse ==
    /\ pc = "weighted_create"
    /\ pc' = "weighted_fit"
    /\ UNCHANGED <<error, dataVars, stdout, splitVars, cwVars, runVars, callVars>>

\* cell 17, first statement: model = simple_mlp()
WeightedCreate ==
    /\ pc = "weighted_create"
    /\ model' = simple_mlp(nmodels)
    /\ nmodels' = nmodels + 1
    /\ pc' = "weighted_fit"
    /\ UNCHANGED <<error, dataVars, stdout, splitVars, cwVars, y_pred, callVars>>

\* cell 17, second statement:
\* model.fit(X_train, y_train, epochs = 100, class_weight = class_weights)
WeightedFit ==
    /\ pc = "weighted_fit"
    /\ model' = Fit(model, X_train, y_train, Epochs, <<class_weights>>)
    /\ pc' = "weighted_predict"
    /\ UNCHANGED <<error, dataVars, stdout, splitVars, cwVars, nmodels, y_pred, callVars>>

\* cell 18: y_pred = model.predict(X_test).round()
WeightedPredict ==
    /\ pc = "weighted_predict"
    /\ y_pred' \in PredictRound(model, X_test)
    /\ pc' = "weighted_report"
    /\ UNCHANGED <<error, dataVars, stdout, splitVars, cwVars, model, nmodels, callVars>>

\* cell 19: print the fraction of predicted 1's and the accuracy
WeightedReport ==
    /\ pc = "weighted_report"
    /\ stdout' = <<PositiveFraction(y_pred), accuracy_score(y_pred, y_test)>>
    /\ pc' = "done"
    /\ UNCHANGED <<error, dataVars, splitVars, cwVars, runVars, callVars>>

\* The label sequences left by injection that cells 7-19 are explored from:
\* every label sequence of at most MaxRows rows, left behind by a dataset
\* whose first 200 rows all had label 0.
InjectedTargets ==
    {Repeat(TargetLabel, RemoveCount) \o y : y \in BoundedSeq(Labels, MaxRows)}

\* the state after cell 6
InitRun ==
    /\ pc = "split"
    /\ error = ""
    /\ \E t \in InjectedTargets :
          /\ data = Dataset(t)
          /\ X_data = FilterNotNone(Marked(Dataset(t).data, t, RemoveCount))
          /\ y_data = FilterNotNone(Marked(t, t, RemoveCount))
          /\ stdout = CounterLine(FilterNotNone(Marked(t, t, RemoveCount)))
    /\ Unbound

NextRun ==
    \/ SplitValueError
    \/ Split
    \/ ComputeWeights
    \/ ZipWeights
    \/ DefineMlp
    \/ NaiveCreate
    \/ NaiveFit
    \/ NaivePredict
    \/ NaiveReport
    \/ WeightedCreate
    \/ WeightedFit
    \/ WeightedPredict
    \/ WeightedReport

SpecRun == InitRun /\ [][NextRun]_vars

----------------------------------------------------------------------------
(* Cells 14-15 and 17-18 statement by statement: the epochs of model.fit   *)
(* and the two calls of model.predict(X_test).round()                      *)

\* the per-sample losses (binary cross-entropy) an epoch is explored with
SampleLosses == {1, 2}

\* The loss vectors of one epoch: any loss per class, the samples of a class
\* sharing it.  The parameters are not modelled, so the losses are a free
\* choice in every epoch; they may repeat from one epoch to the next.
EpochLosses(y) ==
    {[i \in DOMAIN y |-> byClass[y[i]]] : byClass \in [Labels -> SampleLosses]}

\* the rational 1
One == [num |-> 1, den |-> 1]

\* the sum of a list of integers
RECURSIVE SumSeq(_)
SumSeq(list) == IF list = <<>> THEN 0 ELSE list[1] + SumSeq(Tail(list))

\* the product of a finite set of integers
RECURSIVE Product(_)
Product(S) ==
    IF S = {} THEN 1
    ELSE LET m == CHOOSE x \in S : TRUE IN m * Product(S \ {m})

\* a common denominator of a list of rationals
CommonDen(w) == Product({w[i].den : i \in DOMAIN w})

\* every sample weighs 1, whatever class_weight says
SampleWeightsIgnoringClass(y, cw) == [i \in DOMAIN y |-> One]

\* the multiplier of each sample's loss: class_weight[y[i]] when fit got a
\* class_weight (cw = <<dict>>), 1 when it got none (cw = <<>>)
SampleWeights(y, cw) ==
    [i \in DOMAIN y |-> IF cw = <<>> THEN One ELSE cw[1][y[i]]]

\* the loss an epoch logs: the mean over the samples of weight * loss
EpochLoss(w, losses) ==
    Frac(SumSeq([i \in DOMAIN w |->
                    w[i].num * (CommonDen(w) \div w[i].den) * losses[i]]),
         CommonDen(w) * Len(w))

\* one more epoch applied to the parameters of the model, in place
FitEpoch(m) == [m EXCEPT !.fits[Len(m.fits)].epochs = @ + 1]

\* model.fit(X, y, epochs, class_weight) is entered: the sample weights are
\* built and the loop over the epochs starts
FitBegin(at, next, cw) ==
    /\ pc = at
    /\ training' = << [epoch |-> 0, epochs |-> Epochs, samples |-> Len(X_train),
                       sample_weight |-> SampleWeights(y_train, cw),
                       loss |-> One, flat |-> TRUE] >>
    /\ model' = Fit(model, X_train, y_train, 0, cw)
    /\ pc' = next
    /\ UNCHANGED <<error, dataVars, stdout, splitVars, cwVars, nmodels, y_pred, y_prob>>

\* an epoch that ends the fit when its loss equals the loss of the epoch
\* before (early stopping on a loss that stopped changing)
EpochStepEarlyStop(at, next) ==
    /\ pc = at
    /\ training[1].epoch < training[1].epochs
    /\ \E losses \in EpochLosses(y_train) :
          LET t == training[1]
              l == EpochLoss(t.sample_weight, losses)
              stop == t.epoch > 0 /\ l = t.loss
          IN  /\ training' = IF stop THEN <<>>
                             ELSE << [t EXCEPT !.epoch = @ + 1, !.loss = l,
                                               !.flat = (t.epoch = 0 \/ (@ /\ l = t.loss))] >>
              /\ pc' = IF stop THEN next ELSE at
    /\ model' = FitEpoch(model)
    /\ UNCHANGED <<error, dataVars, stdout, splitVars, cwVars, nmodels, y_pred, y_prob>>

\* one epoch of the loop (for epoch in range(epochs)): one pass over all
\* training samples, which updates the parameters in place and logs the
\* weighted mean of the per-sample losses; flat tells whether every epoch so
\* far logged the same loss
EpochStep(at, next) ==
    /\ pc = at
    /\ training[1].epoch < training[1].epochs
    /\ \E losses \in EpochLosses(y_train) :
          LET t == training[1]
              l == EpochLoss(t.sample_weight, losses)
          IN  training' = << [t EXCEPT !.epoch = @ + 1, !.loss = l,
                                       !.flat = (t.epoch = 0 \/ (@ /\ l = t.loss))] >>
    /\ model' = FitEpoch(model)
    /\ pc' = at
    /\ UNCHANGED <<error, dataVars, stdout, splitVars, cwVars, nmodels, y_pred, y_prob>>

\* the loop ran out of epochs: fit returns
FitEnd(at, next) ==
    /\ pc = at
    /\ training[1].epoch = training[1].epochs
    /\ training' = <<>>
    /\ pc' = next
    /\ UNCHANGED <<error, dataVars, stdout, splitVars, cwVars, runVars, y_prob>>

\* model.predict(X_test): one output probability (in tenths) per test row
PredictOutput(at, next) ==
    /\ pc = at
    /\ y_prob' \in [DOMAIN X_test -> Probs]
    /\ pc' = next
    /\ UNCHANGED <<error, dataVars, stdout, splitVars, cwVars, runVars, training>>

\* .round() of the array, element by element
RoundAll(probs) == [k \in DOMAIN probs |-> Round(probs[k])]

\* y_pred = (that array).round()
RoundOutput(at, next) ==
    /\ pc = at
    /\ y_pred' = RoundAll(y_prob)
    /\ y_prob' = <<>>
    /\ pc' = next
    /\ UNCHANGED <<error, dataVars, stdout, splitVars, cwVars, model, nmodels, training>>

\* cell 14, second statement, step by step
NaiveFitBegin == FitBegin("naive_fit", "naive_epoch", <<>>)
NaiveEpoch == EpochStep("naive_epoch", "naive_predict")
NaiveFitEnd == FitEnd("naive_epoch", "naive_predict")

\* cell 15, step by step
NaivePredictOutput == PredictOutput("naive_predict", "naive_round")
NaiveRound == RoundOutput("naive_round", "naive_report")

\* cell 17, second statement, step by step
WeightedFitBegin == FitBegin("weighted_fit", "weighted_epoch", <<class_weights>>)
WeightedEpoch == EpochStep("weighted_epoch", "weighted_predict")
WeightedFitEnd == FitEnd("weighted_epoch", "weighted_predict")

\* cell 18, step by step
WeightedPredictOutput == PredictOutput("weighted_predict", "weighted_round")
WeightedRound == RoundOutput("weighted_round", "weighted_report")

\* longest post-injection dataset the epochs of the two fits are explored from
MaxFitRows == 4

\* The label sequences left by injection that the epochs are explored from:
\* a rows of label 0 followed by b rows of label 1, at most MaxFitRows rows
\* (the split takes any of them as test rows).
FitTargets ==
    {Repeat(TargetLabel, RemoveCount) \o Repeat(0, p[1]) \o Repeat(1, p[2]) :
        p \in {q \in (0..MaxFitRows) \X (0..MaxFitRows) : q[1] + q[2] <= MaxFitRows}}

\* the state after cell 6
InitFit ==
    /\ pc = "split"
    /\ error = ""
    /\ \E t \in FitTargets :
          /\ data = Dataset(t)
          /\ X_data = FilterNotNone(Marked(Dataset(t).data, t, RemoveCount))
          /\ y_data = FilterNotNone(Marked(t, t, RemoveCount))
          /\ stdout = CounterLine(FilterNotNone(Marked(t, t, RemoveCount)))
    /\ Unbound

NextFit ==
    \/ SplitValueError
    \/ Split
    \/ ComputeWeights
    \/ ZipWeights
    \/ DefineMlp
    \/ NaiveCreate
    \/ NaiveFitBegin
    \/ NaiveEpoch
    \/ NaiveFitEnd
    \/ NaivePredictOutput
    \/ NaiveRound
    \/ NaiveReport
    \/ WeightedCreate
    \/ WeightedFitBegin
    \/ WeightedEpoch
    \/ WeightedFitEnd
    \/ WeightedPredictOutput
    \/ WeightedRound
    \/ WeightedReport

\* cells 7-19, the fits epoch by epoch
SpecFit == InitFit /\ [][NextFit]_vars

----------------------------------------------------------------------------
(* Properties of imbalance injection (cells 4 and 5), under Spec *)

\* the marking loop and the filter both ran to their end
InjectionDone == pc \notin {"count_loaded", "mark", "filter"} /\ error # "IndexError"

\* positions of the loaded dataset that lie among the first 200 rows and
\* carry the target label
HeadTargets ==
    {k \in DOMAIN data.target : k <= RemoveCount /\ data.target[k] = TargetLabel}

\* positions of the first 200 rows, in dataset order, that carry the target label
FirstMatching ==
    {k \in DOMAIN data.target :
        /\ data.target[k] = TargetLabel
        /\ Cardinality({j \in 1..k : data.target[j] = TargetLabel}) <= RemoveCount}

\* the rows held by a list of rows
RowsOf(list) == {list[k] : k \in DOMAIN list}

\* a list of rows is in dataset order
InDatasetOrder(list) ==
    \A i, j \in DOMAIN list : i < j => list[i] < list[j]

\* C1 as stated: injection reduces the label-0 count by exactly 200, and a
\* dataset of 212 label-0 and 357 label-1 samples is left with 12 label-0
\* samples.
C1_Original ==
    InjectionDone =>
        /\ Count(y_data, 0) = Count(data.target, 0) - RemoveCount
        /\ (Count(data.target, 0) = 212 /\ Count(data.target, 1) = 357
               => Count(y_data, 0) = 12)

\* C1 amended: on a dataset of at least 200 rows injection reduces the
\* label-0 count by exactly the number of label-0 samples among the first
\* 200 rows, which is 200 only when all of them have label 0; the dataset of
\* 212 label-0 and 357 label-1 samples with 104 label-0 samples among its
\* first 200 rows is left with 108 label-0 samples, as cell 6 prints.
C1_RemovesHeadZeros ==
    InjectionDone =>
        /\ Len(data.target) >= RemoveCount
        /\ Count(y_data, 0) = Count(data.target, 0) - Cardinality(HeadTargets)
        /\ (Cardinality(HeadTargets) = RemoveCount
               <=> \A k \in 1..RemoveCount : data.target[k] = 0)
        /\ (data.target = NotebookTarget => Count(y_data, 0) = 108)
        /\ (pc = "split" => stdout[1] = Count(data.target, 0) - Cardinality(HeadTargets))

\* C1 witness: injection finished on the 212/357 dataset and left 108
\* label-0 samples, having removed fewer than 200.
C1_Witness ==
    /\ pc = "split"
    /\ Count(data.target, 0) = 212 /\ Count(data.target, 1) = 357
    /\ stdout = <<108, 357>>
    /\ Cardinality(HeadTargets) < RemoveCount

\* C2: injection leaves the majority class untouched: every label-1 sample
\* of the loaded dataset is still present, with its label, during and after
\* the marking loop and the filter (also when the loop fails), and the
\* label-1 count is unchanged.
C2_MajorityUntouched ==
    /\ Count(y_data, 1) = Count(data.target, 1)
    /\ \A k \in DOMAIN data.target :
          data.target[k] = 1 =>
             \E j \in DOMAIN X_data :
                X_data[j] = data.data[k] /\ y_data[j] = 1
    /\ (pc = "split" => stdout[2] = Count(data.target, 1))

\* C2 witness: injection removed label-0 samples from a dataset that has
\* label-1 samples both among and after its first 200 rows.
C2_Witness ==
    /\ pc = "split"
    /\ Len(y_data) < Len(data.target)
    /\ \E k \in DOMAIN data.target : k <= RemoveCount /\ data.target[k] = 1
    /\ \E k \in DOMAIN data.target : k > RemoveCount /\ data.target[k] = 1

\* C3 as stated: injection removes exactly the first 200 samples, in dataset
\* order, whose label is 0, and keeps the rest in their original order.
C3_Original ==
    InjectionDone =>
        /\ RowsOf(X_data) = {data.data[k] : k \in DOMAIN data.target \ FirstMatching}
        /\ InDatasetOrder(X_data)

\* C3 amended: injection removes exactly the samples that have label 0 and
\* lie among the first 200 rows of the dataset (label-0 samples after row 200
\* stay, however few were removed), and keeps the rest in their original
\* relative order.
C3_RemovesHeadTargetsInOrder ==
    InjectionDone =>
        /\ RowsOf(X_data) = {data.data[k] : k \in DOMAIN data.target \ HeadTargets}
        /\ Len(X_data) = Len(data.target) - Cardinality(HeadTargets)
        /\ InDatasetOrder(X_data)

\* C3 witness: injection finished, removing some label-0 rows and keeping a
\* label-0 row that lies after the first 200 rows and is among the first 200
\* label-0 rows.
C3_Witness ==
    /\ pc = "split"
    /\ HeadTargets # {}
    /\ \E k \in FirstMatching : k > RemoveCount /\ data.data[k] \in RowsOf(X_data)

\* C8 as stated: when fewer than 200 label-0 samples or fewer than 200 rows
\* are available, injection fails instead of going on.
C8_Original ==
    (Count(data.target, TargetLabel) < RemoveCount \/ Len(data.target) < RemoveCount)
        => pc \in {"count_loaded", "mark", "error"}

\* C8 amended: a dataset of fewer than 200 rows makes the marking loop fail
\* at once with an IndexError (the filter never runs, no row is dropped and
\* the rows visited before the failure stay marked None); a dataset of at
\* least 200 rows never fails in injection, however few label-0 samples it
\* has: injection completes and removes the label-0 rows among the first 200.
C8_FailsOnlyOnShortDataset ==
    /\ Len(data.target) < RemoveCount =>
          /\ pc \in {"count_loaded", "mark", "error"}
          /\ pc = "error" =>
                /\ error = "IndexError"
                /\ Len(X_data) = Len(data.target)
                /\ Len(y_data) = Len(data.target)
                /\ \A k \in DOMAIN y_data :
                      (y_data[k] = None) <=> (data.target[k] = TargetLabel)
    /\ Len(data.target) >= RemoveCount =>
          /\ error = ""
          /\ pc # "error"
          /\ InjectionDone =>
                Len(y_data) = Len(data.target) - Cardinality(HeadTargets)

\* C8 witness: the marking loop failed on a short dataset after marking rows.
C8_Witness ==
    /\ pc = "error"
    /\ error = "IndexError"
    /\ Len(data.target) < RemoveCount
    /\ \E k \in DOMAIN y_data : y_data[k] = None
    /\ \E k \in DOMAIN y_data : y_data[k] # None

----------------------------------------------------------------------------
(* Properties of the class weights (cells 11 and 12), under SpecRun *)

\* cell 12 ran: class_weights is bound
WeightsBound == pc \notin {"split", "weights", "zip", "error"}

\* the classes occurring in a label sequence
ClassesOf(y) == {y[k] : k \in DOMAIN y}

\* the rational p is the quotient a / b
IsQuotient(p, a, b) == p.num * b = a * p.den

\* C4: for every non-empty y_train the class-weight mapping has exactly the
\* classes occurring in y_train as keys and maps each class c to
\* len(y_train) / (number of distinct classes of y_train * occurrences of c
\* in y_train), computed from the training labels, not from the test labels
\* or the whole post-injection dataset.
C4_BalancedWeightsOfTrainingLabels ==
    WeightsBound /\ y_train # <<>> =>
        /\ DOMAIN class_weights = ClassesOf(y_train)
        /\ \A c \in ClassesOf(y_train) :
              IsQuotient(class_weights[c], Len(y_train),
                         Cardinality(ClassesOf(y_train)) * Count(y_train, c))

\* C4 witness: class_weights is bound and the weights of the training labels
\* differ from what the labels of the whole dataset would give.
C4_Witness ==
    /\ WeightsBound
    /\ ClassesOf(y_train) = {0, 1}
    /\ ~ IsQuotient(class_weights[0], Len(y_data), 2 * Count(y_data, 0))
    /\ ~ IsQuotient(class_weights[1], Len(y_data), 2 * Count(y_data, 1))

\* C5: the product weight(c) * count(c) is the same for every class of the
\* class-weight mapping.
C5_EqualWeightTimesCount ==
    WeightsBound =>
        \A a, b \in DOMAIN class_weights :
            class_weights[a].num * Count(y_train, a) * class_weights[b].den
              = class_weights[b].num * Count(y_train, b) * class_weights[a].den

\* C5 witness: class_weights holds two classes of different counts and
\* different weights.
C5_Witness ==
    /\ WeightsBound
    /\ DOMAIN class_weights = {0, 1}
    /\ Count(y_train, 0) # Count(y_train, 1)
    /\ class_weights[0] # class_weights[1]

\* C6: every class weight is a positive number, and of two classes of the
\* training labels the one with fewer occurrences has the larger weight.
C6_PositiveAndDecreasing ==
    WeightsBound =>
        /\ \A c \in DOMAIN class_weights :
              class_weights[c].num > 0 /\ class_weights[c].den > 0
        /\ \A a, b \in DOMAIN class_weights :
              Count(y_train, a) < Count(y_train, b) =>
                 class_weights[a].num * class_weights[b].den
                   > class_weights[b].num * class_weights[a].den

\* C6 witness: label 0 is rarer than label 1 in the training labels and has
\* a weight above 1, label 1 a weight below 1.
C6_Witness ==
    /\ WeightsBound
    /\ DOMAIN class_weights = {0, 1}
    /\ Count(y_train, 0) < Count(y_train, 1)
    /\ class_weights[0].num > class_weights[0].den
    /\ class_weights[1].num < class_weights[1].den

----------------------------------------------------------------------------
(* Properties of the split (cell 7), under SpecRun *)

\* cell 7 ran to its end
SplitDone == pc \notin {"split", "error"}

\* a list holds no row twice
NoRepeat(list) == Cardinality(RowsOf(list)) = Len(list)

\* the label the post-injection dataset holds for a row
LabelOf(row) == y_data[CHOOSE j \in DOMAIN X_data : X_data[j] = row]

\* C7: the split partitions the post-injection dataset: every row lands in
\* exactly one of the train and test sets, the sizes add up to the dataset
\* size, the test set holds the fraction 0.2 of the rows rounded up (465
\* rows give 372 train and 93 test rows), and the labels are split at the
\* same rows as the features.
C7_SplitPartitions ==
    /\ NTest(465) = 93 /\ 465 - NTest(465) = 372
    /\ SplitDone =>
          /\ RowsOf(X_train) \cup RowsOf(X_test) = RowsOf(X_data)
          /\ RowsOf(X_train) \cap RowsOf(X_test) = {}
          /\ NoRepeat(X_train) /\ NoRepeat(X_test)
          /\ Len(X_train) + Len(X_test) = Len(X_data)
          /\ Len(y_train) = Len(X_train) /\ Len(y_test) = Len(X_test)
          /\ TestSizeDen * Len(X_test) >= TestSizeNum * Len(X_data)
          /\ TestSizeDen * (Len(X_test) - 1) < TestSizeNum * Len(X_data)
          /\ \A k \in DOMAIN X_train : y_train[k] = LabelOf(X_train[k])
          /\ \A k \in DOMAIN X_test : y_test[k] = LabelOf(X_test[k])

\* C7 witness: six rows of both labels were split into four train and two
\* test rows, not in dataset order.
C7_Witness ==
    /\ SplitDone
    /\ Len(X_data) = 6 /\ Len(X_train) = 4 /\ Len(X_test) = 2
    /\ ClassesOf(y_train) = {0, 1} /\ ClassesOf(y_test) = {0, 1}
    /\ X_test[1] > X_test[2]

----------------------------------------------------------------------------
(* Properties of the two training runs (cells 14 and 17), under SpecRun *)

\* C10: each training run starts from a model newly created by simple_mlp():
\* when a fit starts, the model is a new object no fit was applied to, the
\* weighted run's model is another object than the naive run's, and the
\* parameters of the weighted run's model are shaped by the weighted fit
\* alone.
C10_FreshModelPerRun ==
    /\ pc \in {"naive_fit", "weighted_fit"} =>
          model.fits = <<>> /\ model.id = nmodels
    /\ pc \in {"naive_fit", "naive_predict", "naive_report", "weighted_create"} =>
          model.id = 1
    /\ pc \in {"weighted_fit", "weighted_predict", "weighted_report", "done"} =>
          model.id = 2
    /\ pc \in {"weighted_predict", "weighted_report", "done"} =>
          /\ Len(model.fits) = 1
          /\ model.fits[1].class_weight = <<class_weights>>

\* C10 witness: the weighted run is about to fit a second, unfitted model
\* after the naive run trained and evaluated the first.
C10_Witness ==
    /\ pc = "weighted_fit"
    /\ nmodels = 2
    /\ model.fits = <<>>
    /\ y_pred # <<>>

----------------------------------------------------------------------------
(* Properties of the epochs of the two fits (cells 14 and 17), under SpecFit *)

\* a fit call is running
Fitting == training # <<>>

\* the fit the model went through last
LastFit == model.fits[Len(model.fits)]

\* what holds of the epochs in every state: a running fit has completed at
\* most 100 epochs over all training samples and can take its next step (one
\* more epoch before the 100th, the return after it), and a fit that
\* returned has completed exactly 100
EpochsInvariant ==
    /\ Fitting <=> pc \in {"naive_epoch", "weighted_epoch"}
    /\ Fitting =>
          /\ training[1].epoch \in 0..Epochs
          /\ training[1].epochs = Epochs
          /\ training[1].samples = Len(X_train)
          /\ LastFit.epochs = training[1].epoch
          /\ training[1].epoch < Epochs => ENABLED (NaiveEpoch \/ WeightedEpoch)
          /\ training[1].epoch = Epochs => ENABLED (NaiveFitEnd \/ WeightedFitEnd)
    /\ pc \in {"naive_predict", "naive_round", "naive_report", "weighted_create",
               "weighted_predict", "weighted_round", "weighted_report", "done"} =>
          /\ Len(model.fits) = 1
          /\ LastFit.epochs = Epochs
          /\ LastFit.samples = Len(X_train)

\* what every step of a running fit does: it completes one more epoch,
\* whatever loss that epoch logs, or it returns after epoch 100
EpochProgress ==
    Fitting =>
        \/ /\ Fitting'
           /\ training'[1].epoch = training[1].epoch + 1
           /\ training[1].epoch < Epochs
        \/ /\ ~ Fitting'
           /\ training[1].epoch = Epochs

\* C11: each training run performs exactly the 100 epochs it was given, each
\* a pass over all training samples, and then returns: the epochs completed
\* grow by one with every step of the fit, the fit never returns before
\* epoch 100, whatever losses the epochs log (also when the loss is the same
\* from one epoch to the next), and after epoch 100 it returns.
C11_ExactlyHundredEpochs == []EpochsInvariant /\ [][EpochProgress]_vars

\* C11 witness: a fit has run all 100 epochs, every one of them logging the
\* same loss, and is about to return.
C11_Witness ==
    /\ pc = "naive_epoch"
    /\ training[1].epoch = 100
    /\ training[1].flat
    /\ LastFit.epochs = 100 /\ LastFit.samples = Len(X_train)

-----------------------------------------------------------------------------
(* Properties of the loss the two fits minimise, under SpecFit *)

\* the multiplier of training sample i in the fit in progress
Multiplier(i) ==
    IF pc = "weighted_epoch" THEN class_weights[y_train[i]] ELSE One

\* C12: in the weighted run the loss of every training sample is multiplied
\* by the class weight of the sample's label before the losses are
\* aggregated, and in the naive run by 1: the multipliers of the fit in
\* progress are those, and the loss every epoch logs is the mean of the
\* samples' losses times those multipliers.
C12_LossTimesClassWeight ==
    Fitting =>
        /\ DOMAIN training[1].sample_weight = DOMAIN y_train
        /\ \A i \in DOMAIN y_train : training[1].sample_weight[i] = Multiplier(i)
        /\ training[1].epoch > 0 =>
              \E losses \in EpochLosses(y_train) :
                 training[1].loss =
                    EpochLoss([i \in DOMAIN y_train |-> Multiplier(i)], losses)

\* C12 witness: the weighted fit has logged an epoch over a training set of
\* both classes in unequal numbers, so that neither class weight is 1.
C12_Witness ==
    /\ pc = "weighted_epoch"
    /\ training[1].epoch > 0
    /\ Count(y_train, 0) > 0
    /\ Count(y_train, 1) > Count(y_train, 0)
    /\ \A i \in DOMAIN y_train : training[1].sample_weight[i] # One

-----------------------------------------------------------------------------
(* Properties of the predictions (cells 15 and 18), under SpecFit *)

\* predictions hold no value other than 0 and 1
BinaryPredictions == \A k \in DOMAIN y_pred : y_pred[k] \in {0, 1}

\* the step that rounds the output of model.predict(X_test): it leaves one
\* prediction per held-out sample, 1 where the output is above 0.5 and 0
\* where it is below
RoundingStep ==
    (y_prob # <<>> /\ y_prob' = <<>>) =>
        /\ DOMAIN y_pred' = DOMAIN X_test
        /\ \A k \in DOMAIN X_test :
              /\ y_prob[k] > 5 => y_pred'[k] = 1
              /\ y_prob[k] < 5 => y_pred'[k] = 0

\* C13: for every held-out sample the prediction is the output probability
\* rounded at threshold 0.5, that is 1 when the output is above 0.5 and 0
\* when it is below, and no prediction is anything other than 0 or 1.
C13_RoundedAtHalf == []BinaryPredictions /\ [][RoundingStep]_vars

\* C13 witness: both runs have rounded the output for a held-out sample, the
\* naive run to 0 (it reported no predicted 1) and the weighted run to 1.
C13_Witness ==
    /\ pc = "weighted_report"
    /\ y_prob = <<>>
    /\ Len(y_pred) > 0
    /\ \A k \in DOMAIN y_pred : y_pred[k] = 1
    /\ stdout # <<>> /\ stdout[1].num = 0

-----------------------------------------------------------------------------
(* Properties of the reported metrics (cells 16 and 19), under SpecRun *)

\* stdout holds the two metrics of the predictions in y_pred
Reported ==
    pc \in {"weighted_create", "weighted_fit", "weighted_predict", "done"}

\* the held-out samples whose prediction is their true label
Hits == {k \in DOMAIN y_test : y_pred[k] = y_test[k]}

\* the rational p lies in [0, 1]
InUnitInterval(p) == p.den > 0 /\ 0 <= p.num /\ p.num <= p.den

\* C14: for every non-empty held-out set the reported fraction of positive
\* predictions is the number of predictions equal to 1 over the number of
\* held-out samples, the reported accuracy is the number of held-out samples
\* predicted with their true label over the number of held-out samples, and
\* both lie in [0, 1].
C14_MetricsAreFractionsOfTestSet ==
    Reported /\ y_test # <<>> =>
        /\ Len(stdout) = 2
        /\ DOMAIN y_pred = DOMAIN y_test
        /\ IsQuotient(stdout[1], Count(y_pred, 1), Len(y_test))
        /\ IsQuotient(stdout[2], Cardinality(Hits), Len(y_test))
        /\ InUnitInterval(stdout[1]) /\ InUnitInterval(stdout[2])

\* C14 witness: a run reported on two held-out samples, one of them predicted
\* 1 and one of them predicted with its true label: both metrics are 1/2.
C14_Witness ==
    /\ pc = "done"
    /\ Len(y_test) = 2
    /\ Count(y_pred, 1) = 1
    /\ Cardinality(Hits) = 1
    /\ stdout = <<[num |-> 1, den |-> 2], [num |-> 1, den |-> 2]>>

-----------------------------------------------------------------------------
(* Properties of what injection removes and keeps, under Spec *)

\* the sample at position k of the loaded dataset is gone from X_data
Removed(k) == data.data[k] \notin RowsOf(X_data)

\* positions of the loaded dataset after the first 200 rows that carry label 0
TailZeros == {k \in DOMAIN data.target : k > RemoveCount /\ data.target[k] = 0}

\* C15: injection removes a sample if and only if its index (position - 1)
\* is below 200 and its label is 0; so the number of samples removed is the
\* number of label-0 samples among the first 200 positions, which need not
\* be 200, and every label-0 sample at index 200 or later is kept, with its
\* label 0: the != None filter does not drop the falsy label.
C15_RemovedIffHeadZero ==
    InjectionDone =>
        /\ \A k \in DOMAIN data.target :
              Removed(k) <=> (k - 1 < RemoveCount /\ data.target[k] = 0)
        /\ Len(data.target) - Len(y_data)
              = Cardinality({k \in 1..RemoveCount : data.target[k] = 0})
        /\ \A k \in TailZeros :
              \E j \in DOMAIN X_data : X_data[j] = data.data[k] /\ y_data[j] = 0
        /\ Count(y_data, 0) = Cardinality(TailZeros)

\* C15 witness: injection removed some samples, fewer than 200, and kept
\* label-0 samples that lie after the first 200 rows.
C15_Witness ==
    /\ pc = "count_injected"
    /\ Len(y_data) < Len(data.target)
    /\ Len(data.target) - Len(y_data) < RemoveCount
    /\ TailZeros # {}
    /\ Count(y_data, 0) = Cardinality(TailZeros)

\* a list holds no None entry
NoNone(list) == \A j \in DOMAIN list : list[j] # None

\* C16: after injection X_data and y_data hold no None, have the same length
\* and are aligned: at every position the feature vector and the label are
\* those of one and the same sample of the loaded dataset.  The marking loop
\* sets both lists to None at the same positions, so both filters keep the
\* same positions.
C16_FeaturesAndLabelsAligned ==
    /\ pc = "filter" =>
          /\ Len(X_data) = Len(y_data)
          /\ \A j \in DOMAIN y_data : X_data[j] = None <=> y_data[j] = None
    /\ InjectionDone =>
          /\ NoNone(X_data) /\ NoNone(y_data)
          /\ Len(X_data) = Len(y_data)
          /\ \A j \in DOMAIN y_data :
                \E k \in DOMAIN data.target :
                   X_data[j] = data.data[k] /\ y_data[j] = data.target[k]

\* C16 witness: the filters ran after the loop marked some positions, and
\* the lists they left hold samples of both labels.
C16_Witness ==
    /\ pc = "count_injected"
    /\ Len(X_data) = Len(y_data)
    /\ Len(y_data) < Len(data.target)
    /\ Count(y_data, 0) > 0 /\ Count(y_data, 1) > 0
    /\ NoNone(X_data) /\ NoNone(y_data)

-----------------------------------------------------------------------------
(* Properties of what the two runs leave alone (cells 14-19), under SpecRun *)

\* a cell of the naive or of the weighted run is about to execute
InRuns ==
    pc \in {"naive_create", "naive_fit", "naive_predict", "naive_report",
            "weighted_create", "weighted_fit", "weighted_predict", "weighted_report"}

\* what every step of the two runs leaves as it was
RunsFrame ==
    InRuns => UNCHANGED <<X_train, y_train, X_test, y_test, class_weights>>

\* C17: creating, training and evaluating the naive model leaves X_train,
\* y_train, X_test, y_test and class_weights unchanged, and so do the steps
\* of the weighted run: the weighted model is trained on the same training
\* set, and both runs are evaluated against the same held-out features and
\* labels.
C17_RunsLeaveSplitAndWeights == [][RunsFrame]_vars

\* C17 witness: the naive model was trained, evaluated and reported on, and
\* the weighted model has been trained with the class weights on a training
\* set of the same size; the naive report still is the accuracy of the naive
\* predictions against the held-out labels.
C17_Witness ==
    /\ pc = "weighted_predict"
    /\ Len(model.fits) = 1
    /\ model.fits[1].class_weight = <<class_weights>>
    /\ model.fits[1].samples = Len(X_train)
    /\ Len(stdout) = 2
    /\ Len(y_test) = 2 /\ Cardinality(Hits) = 1 /\ stdout[2] = [num |-> 1, den |-> 2]

====
